---- MODULE Spec2Model ----
(***************************************************************************)
(* fs-mcp: the session store (src/src/session.rs), the context resolvers   *)
(* built on it (src/src/state.rs, src/src/tools.rs,                        *)
(* src/src/tools/list_directory.rs), the transport loop                    *)
(* (src/src/main.rs) and the file tools (src/src/tools/write.rs,           *)
(* write_file.rs, move.rs, read.rs, list.rs, search.rs, delete.rs,         *)
(* set_working_directory.rs).                                              *)
(*                                                                         *)
(* Strings that the code takes apart (session ids, file names, paths) are  *)
(* sequences of tokens: a token is a separator ("/", ".", "~") or a word   *)
(* that holds no separator.                                                *)
(***************************************************************************)
EXTENDS Integers, Sequences, FiniteSets, TLC

VARIABLES
    mem,      \* SessionStore.sessions: session id -> SessionEntry (or absent)
    disk,     \* the file at session_file_path(id), for each session id
    now,      \* the value the next SystemTime::now() returns
    ret,      \* the last call made on the store / resolver and what it returned
    updates,  \* per session id, the mutators applied to it so far, in call order
    allOk,    \* every store call since the first construction returned Ok
    swd,      \* the argument of the last set_working_directory that returned Ok
    inlog,    \* the lines main has read from stdin so far
    out,      \* the lines main has written to stdout so far
    eof,      \* main has left its loop
    calls,    \* per thread, the store call it is in: past the lock, write pending
    files,    \* the files the tools work on: path -> content (or no file)
    dirs      \* the directories that exist (the root always does)

loopVars == <<swd, inlog, out, eof>>
otherVars == <<calls, files, dirs>>
vars == <<mem, disk, now, ret, updates, allOk, swd, inlog, out, eof, calls, files, dirs>>

----------------------------------------------------------------------------
(* Bounds *)

\* The clock readings a run takes (each store call reads the clock once).
MaxTime == 3
\* The lines main reads in a run.
MaxLines == 2
\* The chunks a file holds at most (a write holds one, an append adds one).
MaxChunks == 1
\* The paths a read request carries at most.
MaxPaths == 2

----------------------------------------------------------------------------
(* Session ids and payloads *)

DefaultId == <<"default">>
S1 == <<"s1">>
EmptyId == <<>>

\* The session ids callers use; set_context.rs:12 allows "absolutely anything".
Sids == {DefaultId, S1, EmptyId}

\* Option<PathBuf>
None == [some |-> FALSE, path |-> <<>>]
Some(p) == [some |-> TRUE, path |-> p]

\* FsSessionData / SharedContextData and its Default
Data(cp) == [context_path |-> cp]
Zero == Data(None)

\* SessionEntry<T>, and the absence of one in the HashMap
NoEntry == [present |-> FALSE, data |-> Zero, created_at |-> 0, last_used |-> 0]
Entry(d, c, l) == [present |-> TRUE, data |-> d, created_at |-> c, last_used |-> l]

----------------------------------------------------------------------------
(* The files of the storage directory *)

NoFile == [state |-> "none", entry |-> NoEntry]
Corrupt == [state |-> "corrupt", entry |-> NoEntry]

\* serde_json::to_string_pretty(entry): the document holds data and metadata
Serialize(e) == [state |-> "json", entry |-> e]

\* serde_json::from_str(&content)
ParseOk(f) == f.state = "json"
Parse(f) == f.entry

\* format!("{session_id}.json")
FileName(s) == s \o <<".", "json">>

\* storage_dir.join(name) stays a direct child of storage_dir
DirectChild(name) == \A i \in 1..Len(name) : name[i] # "/"

RECURSIVE LastDot(_, _)
LastDot(name, i) ==
    IF i = 0 THEN 0
    ELSE IF name[i] = "." THEN i
    ELSE LastDot(name, i - 1)

\* Path::extension: none when the name has no "." or only a leading one
HasExtension(name) == LastDot(name, Len(name)) > 1
Extension(name) == SubSeq(name, LastDot(name, Len(name)) + 1, Len(name))

\* Path::file_stem
FileStem(name) ==
    IF HasExtension(name) THEN SubSeq(name, 1, LastDot(name, Len(name)) - 1)
    ELSE name

\* load_from_disk: the session ids read_dir yields a loadable file for
Listed(d, s) ==
    /\ d[s].state # "none"
    /\ DirectChild(FileName(s))
    /\ HasExtension(FileName(s))
    /\ Extension(FileName(s)) = <<"json">>

LoadFromDisk(d) ==
    [t \in Sids |->
        IF \E s \in Sids : Listed(d, s) /\ FileStem(FileName(s)) = t /\ ParseOk(d[t])
        THEN Parse(d[t])
        ELSE NoEntry]

----------------------------------------------------------------------------
(* The mutators a caller applies, and their fold *)

Apply(m, d) == Data(m)

RECURSIVE Fold(_, _)
Fold(ms, d) == IF ms = <<>> THEN d ELSE Fold(Tail(ms), Apply(Head(ms), d))

----------------------------------------------------------------------------
(* SessionStore *)

\* What fs::write / fs::remove_file can do: succeed, or fail leaving the file
\* as it was.
IoOutcomes == {"ok", "fail"}

\* The payloads a caller passes to set
Paths == {<<"/", "a", "/", "b">>, <<"/", "w">>}
DataVals == {Zero} \cup {Data(Some(p)) : p \in Paths}

\* save_session_to_disk
SaveSessionToDisk(d, s, e, io) ==
    IF io = "ok" THEN [d EXCEPT ![s] = Serialize(e)] ELSE d

\* get_or_create with a plausible slip: a new entry is stamped created_at = the
\* epoch instead of now
GetOrCreateEpoch(m, d, t, s, io) ==
    LET e == IF m[s].present THEN [m[s] EXCEPT !.last_used = t]
             ELSE Entry(Zero, 0, t)
    IN  [mem |-> [m EXCEPT ![s] = e],
         disk |-> SaveSessionToDisk(d, s, e, io),
         ok |-> (io = "ok"),
         val |-> e.data]

\* get_or_create: the map and the files after the call, and what it returns
GetOrCreate(m, d, t, s, io) ==
    IF m[s].present
    THEN LET e == [m[s] EXCEPT !.last_used = t]
         IN  [mem |-> [m EXCEPT ![s] = e],
              disk |-> SaveSessionToDisk(d, s, e, io),
              ok |-> (io = "ok"),
              val |-> e.data]
    ELSE LET e == Entry(Zero, t, t)
         IN  [mem |-> [m EXCEPT ![s] = e],
              disk |-> SaveSessionToDisk(d, s, e, io),
              ok |-> (io = "ok"),
              val |-> e.data]

\* set with a plausible slip: an entry that exists keeps its payload
\* (entry().or_insert instead of insert)
SetKeepsFirst(m, d, t, s, data, io) ==
    LET e == Entry(IF m[s].present THEN m[s].data ELSE data,
                   IF m[s].present THEN m[s].created_at ELSE t, t)
    IN  [mem |-> [m EXCEPT ![s] = e],
         disk |-> SaveSessionToDisk(d, s, e, io),
         ok |-> (io = "ok")]

\* set with a plausible slip: the entry inserted is a fresh one, stamped
\* created_at = now whether or not the map held one
SetRestamps(m, d, t, s, data, io) ==
    LET e == Entry(data, t, t)
    IN  [mem |-> [m EXCEPT ![s] = e],
         disk |-> SaveSessionToDisk(d, s, e, io),
         ok |-> (io = "ok")]

\* set with a plausible slip: an entry that exists keeps its last_used, as it
\* keeps its created_at
SetStaleLastUsed(m, d, t, s, data, io) ==
    LET e == Entry(data, IF m[s].present THEN m[s].created_at ELSE t,
                   IF m[s].present THEN m[s].last_used ELSE t)
    IN  [mem |-> [m EXCEPT ![s] = e],
         disk |-> SaveSessionToDisk(d, s, e, io),
         ok |-> (io = "ok")]

\* set
Set(m, d, t, s, data, io) ==
    LET e == Entry(data, IF m[s].present THEN m[s].created_at ELSE t, t)
    IN  [mem |-> [m EXCEPT ![s] = e],
         disk |-> SaveSessionToDisk(d, s, e, io),
         ok |-> (io = "ok")]

\* remove
Remove(m, d, s, io) ==
    [mem |-> [m EXCEPT ![s] = NoEntry],
     disk |-> IF d[s].state = "none" \/ io # "ok" THEN d
              ELSE [d EXCEPT ![s] = NoFile],
     ok |-> (d[s].state = "none" \/ io = "ok")]

----------------------------------------------------------------------------
(* The store driven through its own interface *)

NoRet == [op |-> "none"]

\* The threads that share one SessionStore (it is Arc<Mutex<..>> inside)
Threads == {1, 2}

\* A thread outside any store call, and a thread that has released the lock
\* with its write of entry e to the file of session s still to come
Idle == [pc |-> "idle", sid |-> <<>>, entry |-> NoEntry]
Saving(s, e) == [pc |-> "save", sid |-> s, entry |-> e]

\* A thread in remove that has released the lock, with its removal of the file
\* of session s still to come
Unlinking(s) == [pc |-> "unlink", sid |-> s, entry |-> NoEntry]

\* The files the tools read and write. These two paths are the places of the
\* file system where a file can be; each holds no file, or a file whose content
\* is the sequence of the chunks written to it.
FilePaths == {<<"/", "a", "/", "b", "/", "c", "/", "d">>, <<"/", "home", "/", "x">>}
Absent == [exists |-> FALSE, data |-> <<>>]
FileOf(data) == [exists |-> TRUE, data |-> data]
Contents == {"v1", "v2"}

\* The directories that exist when the program starts: the home directory
HomeDirs == {<<"/", "home">>}

InitStore ==
    /\ mem = [s \in Sids |-> NoEntry]
    /\ disk = [s \in Sids |-> NoFile]
    /\ now = 0
    /\ ret = NoRet
    /\ updates = [s \in Sids |-> <<>>]
    /\ allOk = TRUE
    /\ swd = None
    /\ inlog = <<>>
    /\ out = <<>>
    /\ eof = FALSE
    /\ calls = [th \in Threads |-> Idle]
    /\ files = [p \in FilePaths |-> Absent]
    /\ dirs = HomeDirs

CallGetOrCreate ==
    \E s \in Sids, io \in IoOutcomes :
        LET r == GetOrCreate(mem, disk, now, s, io)
        IN  /\ now < MaxTime
            /\ mem' = r.mem
            /\ disk' = r.disk
            /\ now' = now + 1
            /\ ret' = [op |-> "get_or_create", sid |-> s, ok |-> r.ok,
                       val |-> r.val, absent |-> ~mem[s].present, at |-> now]
            /\ allOk' = (allOk /\ r.ok)
            /\ UNCHANGED <<updates, loopVars, otherVars>>

CallSet ==
    \E s \in Sids, data \in DataVals, io \in IoOutcomes :
        LET r == Set(mem, disk, now, s, data, io)
        IN  /\ now < MaxTime
            /\ mem' = r.mem
            /\ disk' = r.disk
            /\ now' = now + 1
            /\ ret' = [op |-> "set", sid |-> s, ok |-> r.ok, at |-> now]
            /\ updates' = [updates EXCEPT ![s] = Append(@, data.context_path)]
            /\ allOk' = (allOk /\ r.ok)
            /\ UNCHANGED <<loopVars, otherVars>>

\* FsTools::set_context (tools.rs): get_or_create, then set with
\* context_path = Some(path)
SetContext(m, d, t, path, s, io1, io2) ==
    LET g == GetOrCreate(m, d, t, s, io1)
        u == Set(g.mem, g.disk, t + 1, s, Data(Some(path)), io2)
    IN  IF ~g.ok
        THEN [mem |-> g.mem, disk |-> g.disk, now |-> t + 1, ok |-> FALSE,
              applied |-> FALSE]
        ELSE [mem |-> u.mem, disk |-> u.disk, now |-> t + 2, ok |-> u.ok,
              applied |-> TRUE]

CallSetContext ==
    \E s \in Sids, path \in Paths, io1 \in IoOutcomes, io2 \in IoOutcomes :
        LET r == SetContext(mem, disk, now, path, s, io1, io2)
        IN  /\ r.now <= MaxTime
            /\ mem' = r.mem
            /\ disk' = r.disk
            /\ now' = r.now
            /\ ret' = [op |-> "set_context", sid |-> s, ok |-> r.ok]
            /\ updates' = IF r.applied
                          THEN [updates EXCEPT ![s] = Append(@, Some(path))]
                          ELSE updates
            /\ allOk' = (allOk /\ r.ok)
            /\ UNCHANGED <<loopVars, otherVars>>

\* The store is dropped and SessionStore::new runs on the same storage_dir.
\* ret keeps the map the dropped store held; the fold of the new store starts
\* from the payloads it loaded.
Reopen ==
    /\ ret.op \notin {"none", "new"}
    /\ mem' = LoadFromDisk(disk)
    /\ ret' = [op |-> "new", held |-> mem, clean |-> allOk]
    /\ updates' = [s \in Sids |->
                      IF LoadFromDisk(disk)[s].present
                      THEN <<LoadFromDisk(disk)[s].data.context_path>>
                      ELSE <<>>]
    /\ allOk' = FALSE
    /\ UNCHANGED <<disk, now, loopVars, otherVars>>

\* Outside the program, a session file gets a content serde_json rejects
\* (truncated, edited by hand)
CorruptFile ==
    \E s \in Sids :
        /\ disk[s].state = "json"
        /\ disk' = [disk EXCEPT ![s] = Corrupt]
        /\ ret' = [op |-> "corrupt", sid |-> s]
        /\ UNCHANGED <<mem, now, updates, allOk, loopVars, otherVars>>

\* A store is filled, files get corrupted, a new store is constructed
NextLoad ==
    \/ CallGetOrCreate
    \/ CallSet
    \/ CorruptFile
    \/ Reopen

SpecLoad == InitStore /\ [][NextLoad]_vars

NextStore ==
    \/ CallGetOrCreate
    \/ CallSet
    \/ CallSetContext
    \/ Reopen

SpecStore == InitStore /\ [][NextStore]_vars

----------------------------------------------------------------------------
(* The store shared by threads. A call is one step while it holds the lock;   *)
(* set, and get_or_create on a new id, release the lock before they write,    *)
(* so their write is a step of its own.                                       *)

ThreadSids == {DefaultId, S1}

\* get_or_create: an entry that exists is refreshed and saved under the lock;
\* a new entry is inserted under the lock and saved after drop(sessions)
ThreadGetOrCreate ==
    \E th \in Threads, s \in ThreadSids, io \in IoOutcomes :
        LET r == GetOrCreate(mem, disk, now, s, io)
        IN  /\ calls[th] = Idle
            /\ now < MaxTime
            /\ mem' = r.mem
            /\ now' = now + 1
            /\ IF mem[s].present
               THEN /\ disk' = r.disk
                    /\ calls' = calls
                    /\ allOk' = (allOk /\ r.ok)
               ELSE /\ disk' = disk
                    /\ calls' = [calls EXCEPT ![th] = Saving(s, r.mem[s])]
                    /\ allOk' = allOk
            /\ ret' = [op |-> "lock", thread |-> th, sid |-> s]
            /\ UNCHANGED <<updates, loopVars, files, dirs>>

\* set: the entry is inserted under the lock and saved after drop(sessions)
ThreadSet ==
    \E th \in Threads, s \in ThreadSids, data \in DataVals :
        LET r == Set(mem, disk, now, s, data, "ok")
        IN  /\ calls[th] = Idle
            /\ now < MaxTime
            /\ mem' = r.mem
            /\ now' = now + 1
            /\ calls' = [calls EXCEPT ![th] = Saving(s, r.mem[s])]
            /\ updates' = [updates EXCEPT ![s] = Append(@, data.context_path)]
            /\ ret' = [op |-> "lock", thread |-> th, sid |-> s]
            /\ UNCHANGED <<disk, allOk, loopVars, files, dirs>>

\* save_session_to_disk of a call that has released the lock; the call returns
ThreadSave ==
    \E th \in Threads, io \in IoOutcomes :
        /\ calls[th].pc = "save"
        /\ disk' = SaveSessionToDisk(disk, calls[th].sid, calls[th].entry, io)
        /\ calls' = [calls EXCEPT ![th] = Idle]
        /\ allOk' = (allOk /\ io = "ok")
        /\ ret' = [op |-> "save", thread |-> th, sid |-> calls[th].sid]
        /\ UNCHANGED <<mem, now, updates, loopVars, files, dirs>>

NextThreads ==
    \/ ThreadGetOrCreate
    \/ ThreadSet
    \/ ThreadSave

SpecThreads == InitStore /\ [][NextThreads]_vars

\* remove: the entry is taken out of the map under the lock; the file is
\* removed after drop(sessions)
ThreadRemove ==
    \E th \in Threads, s \in ThreadSids :
        /\ calls[th] = Idle
        /\ mem' = Remove(mem, disk, s, "ok").mem
        /\ calls' = [calls EXCEPT ![th] = Unlinking(s)]
        /\ updates' = [updates EXCEPT ![s] = <<>>]
        /\ ret' = [op |-> "lock", thread |-> th, sid |-> s]
        /\ UNCHANGED <<disk, now, allOk, loopVars, files, dirs>>

\* session_file.exists() and fs::remove_file of a remove that has released the
\* lock; the call returns
ThreadUnlink ==
    \E th \in Threads, io \in IoOutcomes :
        LET r == Remove(mem, disk, calls[th].sid, io)
        IN  /\ calls[th].pc = "unlink"
            /\ disk' = r.disk
            /\ calls' = [calls EXCEPT ![th] = Idle]
            /\ allOk' = (allOk /\ r.ok)
            /\ ret' = [op |-> "unlink", thread |-> th, sid |-> calls[th].sid,
                       ok |-> r.ok]
            /\ UNCHANGED <<mem, now, updates, loopVars, files, dirs>>

\* The threads call get_or_create, set and remove
NextRemove ==
    \/ ThreadGetOrCreate
    \/ ThreadSet
    \/ ThreadSave
    \/ ThreadRemove
    \/ ThreadUnlink

SpecRemove == InitStore /\ [][NextRemove]_vars

----------------------------------------------------------------------------
(* Paths and the context resolver of state.rs *)

\* dirs::home_dir()
HomeDir == <<"/", "home">>

\* shellexpand::tilde: "~" and "~/..." have the home directory put in
TildeExpand(p) ==
    IF p = <<"~">> \/ (Len(p) >= 2 /\ p[1] = "~" /\ p[2] = "/")
    THEN HomeDir \o Tail(p)
    ELSE p

\* Path::is_absolute
IsAbsolute(p) == Len(p) > 0 /\ p[1] = "/"

\* PathBuf::join: an absolute argument replaces the base
Join(base, p) ==
    IF IsAbsolute(p) THEN p
    ELSE IF Len(base) > 0 /\ base[Len(base)] = "/" THEN base \o p
    ELSE base \o <<"/">> \o p

\* Option<&str> session ids
NoSid == [some |-> FALSE, id |-> <<>>]
SomeSid(s) == [some |-> TRUE, id |-> s]

\* default_session_id, and session_id.unwrap_or_else(default_session_id)
default_session_id == DefaultId
SidOrDefault(o) == IF o.some THEN o.id ELSE default_session_id

\* An anyhow error: its kind, and the session ids its message names
NoErr == [kind |-> "none", names |-> {}]
Err(k, n) == [kind |-> k, names |-> n]

\* FsTools::get_context (state.rs)
GetContext(m, d, t, o, io) == GetOrCreate(m, d, t, SidOrDefault(o), io)

\* FsTools::resolve_path with a plausible slip: the context is looked up before
\* the path is found to be absolute
ResolvePathLooksUpFirst(m, d, t, path_str, o, io) ==
    LET path == TildeExpand(path_str)
        g == GetContext(m, d, t, o, io)
    IN  IF ~g.ok
        THEN [mem |-> g.mem, disk |-> g.disk, now |-> t + 1, ok |-> FALSE,
              path |-> <<>>, err |-> Err("storage", {})]
        ELSE IF IsAbsolute(path)
        THEN [mem |-> g.mem, disk |-> g.disk, now |-> t + 1, ok |-> TRUE,
              path |-> path, err |-> NoErr]
        ELSE IF g.val.context_path.some
        THEN [mem |-> g.mem, disk |-> g.disk, now |-> t + 1, ok |-> TRUE,
              path |-> Join(g.val.context_path.path, path_str), err |-> NoErr]
        ELSE [mem |-> g.mem, disk |-> g.disk, now |-> t + 1, ok |-> FALSE,
              path |-> <<>>, err |-> Err("context", {})]

\* FsTools::resolve_path with a plausible slip: a relative path is returned as
\* it is, not joined onto the context
ResolvePathNoJoin(m, d, t, path_str, o, io) ==
    LET path == TildeExpand(path_str)
        g == GetContext(m, d, t, o, io)
    IN  IF IsAbsolute(path)
        THEN [mem |-> m, disk |-> d, now |-> t, ok |-> TRUE, path |-> path,
              err |-> NoErr]
        ELSE IF ~g.ok
        THEN [mem |-> g.mem, disk |-> g.disk, now |-> t + 1, ok |-> FALSE,
              path |-> <<>>, err |-> Err("storage", {})]
        ELSE IF g.val.context_path.some
        THEN [mem |-> g.mem, disk |-> g.disk, now |-> t + 1, ok |-> TRUE,
              path |-> path_str, err |-> NoErr]
        ELSE [mem |-> g.mem, disk |-> g.disk, now |-> t + 1, ok |-> FALSE,
              path |-> <<>>, err |-> Err("context", {})]

\* FsTools::resolve_path (state.rs): the store after the call, the clock, and
\* Ok(path) or Err. Its "Use set_working_directory first ..." message names no
\* session id.
ResolvePath(m, d, t, path_str, o, io) ==
    LET path == TildeExpand(path_str)
        g == GetContext(m, d, t, SomeSid(SidOrDefault(o)), io)
    IN  IF IsAbsolute(path)
        THEN [mem |-> m, disk |-> d, now |-> t, ok |-> TRUE, path |-> path,
              err |-> NoErr]
        ELSE IF ~g.ok
        THEN [mem |-> g.mem, disk |-> g.disk, now |-> t + 1, ok |-> FALSE,
              path |-> <<>>, err |-> Err("storage", {})]
        ELSE IF g.val.context_path.some
        THEN [mem |-> g.mem, disk |-> g.disk, now |-> t + 1, ok |-> TRUE,
              path |-> Join(g.val.context_path.path, path_str), err |-> NoErr]
        ELSE [mem |-> g.mem, disk |-> g.disk, now |-> t + 1, ok |-> FALSE,
              path |-> <<>>, err |-> Err("context", {})]

\* SessionStore::update of the mcplease crate: the mutator is applied to the
\* entry's payload in place (to the zero value when the entry is absent),
\* last_used is refreshed and the entry is persisted.
Update(m, d, t, s, cp, io) ==
    LET e == IF m[s].present
             THEN [m[s] EXCEPT !.data = Apply(cp, @), !.last_used = t]
             ELSE Entry(Apply(cp, Zero), t, t)
    IN  [mem |-> [m EXCEPT ![s] = e],
         disk |-> SaveSessionToDisk(d, s, e, io),
         ok |-> (io = "ok")]

\* set_working_directory with a plausible slip: the store being the shared
\* context store, the path is put into every session it holds
SetWorkingDirectoryShared(m, d, t, path, o, io) ==
    LET u == Update(m, d, t, SidOrDefault(o), Some(path), io)
    IN  [mem |-> [s \in Sids |->
                     IF u.mem[s].present
                     THEN [u.mem[s] EXCEPT !.data = Data(Some(path))]
                     ELSE u.mem[s]],
         disk |-> u.disk,
         ok |-> u.ok]

\* FsTools::set_working_directory (state.rs)
SetWorkingDirectory(m, d, t, path, o, io) ==
    Update(m, d, t, SidOrDefault(o), Some(path), io)

----------------------------------------------------------------------------
(* The tools that run on state.rs's FsTools, one request at a time *)

\* The path arguments requests carry: absolute, relative, under the home
InPaths == {<<"/", "a", "/", "b">>, <<"c", "/", "d">>, <<"~", "/", "x">>}
OptSids == {NoSid, SomeSid(DefaultId), SomeSid(S1)}

\* The context the session of a request has before the request runs
ContextOf(m, o) ==
    IF m[SidOrDefault(o)].present THEN m[SidOrDefault(o)].data.context_path
    ELSE None

\* SetWorkingDirectory::execute with a plausible slip: the argument is stored as
\* it was given, and resolved only afterwards for the response
SetWorkingDirectoryExecuteStoresFirst(m, d, t, path, io1, io2) ==
    LET u == SetWorkingDirectory(m, d, t, path, NoSid, io2)
        r == ResolvePath(u.mem, u.disk, t + 1, path, NoSid, io1)
    IN  [mem |-> r.mem, disk |-> r.disk, now |-> r.now, ok |-> (u.ok /\ r.ok),
         stored |-> TRUE, r |-> r]

\* SetWorkingDirectory::execute: the path is resolved for the default session,
\* then stored as its context; r is what the resolver returned
SetWorkingDirectoryExecute(m, d, t, path, io1, io2) ==
    LET r == ResolvePath(m, d, t, path, NoSid, io1)
        u == SetWorkingDirectory(r.mem, r.disk, r.now, r.path, NoSid, io2)
    IN  IF r.ok
        THEN [mem |-> u.mem, disk |-> u.disk, now |-> r.now + 1, ok |-> u.ok,
              stored |-> TRUE, r |-> r]
        ELSE [mem |-> r.mem, disk |-> r.disk, now |-> r.now, ok |-> FALSE,
              stored |-> FALSE, r |-> r]

ExecSetWorkingDirectory ==
    \E path \in InPaths, io1 \in IoOutcomes, io2 \in IoOutcomes :
        LET x == SetWorkingDirectoryExecute(mem, disk, now, path, io1, io2)
            r == x.r
            stored == x.stored
            done == x.ok
        IN  /\ r.now + 1 <= MaxTime
            /\ mem' = x.mem
            /\ disk' = x.disk
            /\ now' = x.now
            /\ ret' = [op |-> "set_working_directory", path |-> path,
                       sid |-> NoSid, io |-> io1, ctx |-> ContextOf(mem, NoSid),
                       rok |-> r.ok, resolved |-> r.path, err |-> r.err,
                       touched |-> (r.mem # mem \/ r.disk # disk \/ r.now # now),
                       ok |-> done]
            /\ updates' = IF stored
                          THEN [updates EXCEPT ![DefaultId] = Append(@, Some(r.path))]
                          ELSE updates
            /\ allOk' = (allOk /\ (r.now = now \/ io1 = "ok") /\ (stored => x.ok))
            /\ swd' = IF done THEN Some(path) ELSE swd
            /\ UNCHANGED <<inlog, out, eof, otherVars>>

\* The file at a path, and the files with the file at a path replaced
FileAt(f, p) == IF p \in FilePaths THEN f[p] ELSE Absent
WithFile(f, p, c) == IF p \in FilePaths THEN [f EXCEPT ![p] = c] ELSE f

\* Delete::execute: the path is resolved, then fs::remove_file removes the file
\* or fails (no such file, or the call itself fails); r is what the resolver
\* returned
DeleteExecute(m, d, t, f, path, o, io, fs) ==
    LET r == ResolvePath(m, d, t, path, o, io)
        removed == r.ok /\ fs = "ok" /\ FileAt(f, r.path).exists
    IN  [mem |-> r.mem, disk |-> r.disk, now |-> r.now,
         files |-> IF removed THEN WithFile(f, r.path, Absent) ELSE f,
         ok |-> removed, r |-> r]

ExecDelete ==
    \E path \in InPaths, o \in OptSids, io \in IoOutcomes, fs \in {"ok", "fail"} :
        LET x == DeleteExecute(mem, disk, now, files, path, o, io, fs)
            r == x.r
            removed == x.ok
        IN  /\ r.now <= MaxTime
            /\ mem' = x.mem
            /\ disk' = x.disk
            /\ now' = x.now
            /\ files' = x.files
            /\ ret' = [op |-> "delete", path |-> path, sid |-> o, io |-> io,
                       ctx |-> ContextOf(mem, o),
                       rok |-> r.ok, resolved |-> r.path, err |-> r.err,
                       touched |-> (r.mem # mem \/ r.disk # disk \/ r.now # now),
                       ok |-> removed]
            /\ allOk' = (allOk /\ (r.now = now \/ io = "ok"))
            /\ UNCHANGED <<updates, swd, inlog, out, eof, calls, dirs>>

NextState ==
    \/ ExecSetWorkingDirectory
    \/ ExecDelete

SpecState == InitStore /\ [][NextState]_vars

----------------------------------------------------------------------------
(* The file tools on state.rs's FsTools. Each returns Ok(text) or Err; text    *)
(* is the kind of message. A path outside FilePaths is a place where no file   *)
(* is and none can be made; at the paths of FilePaths the calls on the file    *)
(* system fail only for the reasons the tools look at (the file is there, or   *)
(* is not).                                                                    *)

\* Path::parent of an absolute path: the path without its last component
\* (None for the root, which has none)
Parent(p) == IF Len(p) <= 2 THEN <<"/">> ELSE SubSeq(p, 1, Len(p) - 2)

\* Path::is_dir, and fs::create_dir_all: the directory and every ancestor of it
\* that is missing are made
IsDir(ds, p) == p = <<"/">> \/ p \in ds
CreateDirAll(ds, p) ==
    ds \cup {SubSeq(p, 1, 2 * k) : k \in 1..(Len(p) \div 2)}

\* A file can be opened or made at p: p is a place where a file can be and its
\* parent is a directory
CanOpen(ds, p) == p \in FilePaths /\ IsDir(ds, Parent(p))

\* What a tool returns besides the store: the files and directories after it,
\* Ok or Err, the kind of its text or error, and the path it worked on
Outcome(r, f, ds, ok, text, target) ==
    [mem |-> r.mem, disk |-> r.disk, now |-> r.now, files |-> f, dirs |-> ds,
     ok |-> ok, text |-> text, target |-> target, err |-> r.err]

\* Write::execute (write.rs)
WriteExecute(m, d, t, f, ds, path_str, contents, overwrite, append, create_directories, io) ==
    LET r == ResolvePath(m, d, t, path_str, NoSid, io)
        old == FileAt(f, r.path)
        ds2 == IF create_directories THEN CreateDirAll(ds, Parent(r.path)) ELSE ds
    IN  IF ~r.ok THEN Outcome(r, f, ds, FALSE, "resolve", r.path)
        ELSE IF append /\ overwrite
        THEN Outcome(r, f, ds2, TRUE, "mutually_exclusive", r.path)
        ELSE IF append
        THEN IF ~CanOpen(ds2, r.path) THEN Outcome(r, f, ds2, FALSE, "io", r.path)
             ELSE Outcome(r, WithFile(f, r.path, FileOf(Append(old.data, contents))),
                          ds2, TRUE, "wrote", r.path)
        ELSE IF overwrite
        THEN IF ~old.exists THEN Outcome(r, f, ds2, FALSE, "io", r.path)
             ELSE Outcome(r, WithFile(f, r.path, FileOf(<<contents>>)), ds2,
                          TRUE, "wrote", r.path)
        ELSE IF old.exists
        THEN Outcome(r, f, ds2, TRUE, "already_exists", r.path)
        ELSE IF ~CanOpen(ds2, r.path) THEN Outcome(r, f, ds2, FALSE, "io", r.path)
        ELSE Outcome(r, WithFile(f, r.path, FileOf(<<contents>>)), ds2, TRUE,
                     "wrote", r.path)

\* WriteFile::execute (write_file.rs): open(create_new) fails with
\* AlreadyExists and ? returns it as Err
WriteFileExecute(m, d, t, f, ds, path_str, o, contents, overwrite, create_directories, io) ==
    LET r == ResolvePath(m, d, t, path_str, o, io)
        old == FileAt(f, r.path)
        ds2 == IF create_directories THEN CreateDirAll(ds, Parent(r.path)) ELSE ds
    IN  IF ~r.ok THEN Outcome(r, f, ds, FALSE, "resolve", r.path)
        ELSE IF ~overwrite /\ old.exists
        THEN Outcome(r, f, ds2, FALSE, "already_exists", r.path)
        ELSE IF ~CanOpen(ds2, r.path) THEN Outcome(r, f, ds2, FALSE, "io", r.path)
        ELSE Outcome(r, WithFile(f, r.path, FileOf(<<contents>>)), ds2, TRUE,
                     "wrote", r.path)

\* Move::execute with a plausible slip: the directories are made right after
\* the paths are resolved, as Write::execute does, before the destination and
\* the source are looked at
MoveExecuteDirsFirst(m, d, t, f, ds, source, destination, o, overwrite, create_directories, io1, io2) ==
    LET rs == ResolvePath(m, d, t, source, o, io1)
        rd == ResolvePath(rs.mem, rs.disk, rs.now, destination, o, io2)
        src == FileAt(f, rs.path)
        ds2 == IF create_directories THEN CreateDirAll(ds, Parent(rd.path)) ELSE ds
    IN  IF ~rs.ok THEN Outcome(rs, f, ds, FALSE, "resolve", rs.path)
        ELSE IF ~rd.ok THEN Outcome(rd, f, ds, FALSE, "resolve", rd.path)
        ELSE IF FileAt(f, rd.path).exists /\ ~overwrite
        THEN Outcome(rd, f, ds2, FALSE, "already_exists", rd.path)
        ELSE IF ~src.exists THEN Outcome(rd, f, ds2, FALSE, "not_found", rd.path)
        ELSE IF ~CanOpen(ds2, rd.path)
        THEN Outcome(rd, f, ds2, FALSE, "io", rd.path)
        ELSE Outcome(rd, WithFile(WithFile(f, rs.path, Absent), rd.path, src),
                     ds2, TRUE, "moved", rd.path)

\* Move::execute (move.rs): both paths are resolved, then the destination and
\* the source are looked at, then create_dir_all and fs::rename
MoveExecute(m, d, t, f, ds, source, destination, o, overwrite, create_directories, io1, io2) ==
    LET rs == ResolvePath(m, d, t, source, o, io1)
        rd == ResolvePath(rs.mem, rs.disk, rs.now, destination, o, io2)
        src == FileAt(f, rs.path)
        ds2 == IF create_directories THEN CreateDirAll(ds, Parent(rd.path)) ELSE ds
    IN  IF ~rs.ok THEN Outcome(rs, f, ds, FALSE, "resolve", rs.path)
        ELSE IF ~rd.ok THEN Outcome(rd, f, ds, FALSE, "resolve", rd.path)
        ELSE IF FileAt(f, rd.path).exists /\ ~overwrite
        THEN Outcome(rd, f, ds, FALSE, "already_exists", rd.path)
        ELSE IF ~src.exists THEN Outcome(rd, f, ds, FALSE, "not_found", rd.path)
        ELSE IF ~CanOpen(ds2, rd.path)
        THEN Outcome(rd, f, ds2, FALSE, "io", rd.path)
        ELSE Outcome(rd, WithFile(WithFile(f, rs.path, Absent), rd.path, src),
                     ds2, TRUE, "moved", rd.path)

\* Read::read_file (read.rs): the path is resolved and the file read; the
\* block is the file's content between BEGIN and END lines, or, when read_file
\* returned Err, what unwrap_or_else in execute makes of it: an ERROR block.
\* max_length is not given.
ReadFile(m, d, t, f, path, o, io) ==
    LET r == ResolvePath(m, d, t, path, o, io)
    IN  [r |-> r,
         block |-> [kind |-> IF r.ok /\ FileAt(f, r.path).exists THEN "contents"
                             ELSE "error",
                    path |-> path]]

\* The map over self.paths in Read::execute: the paths are read one after the
\* other, each on the store the one before left
RECURSIVE ReadAll(_, _, _, _, _, _, _, _, _)
ReadAll(m, d, t, f, paths, o, ios, blocks, clean) ==
    IF paths = <<>>
    THEN [mem |-> m, disk |-> d, now |-> t, blocks |-> blocks, clean |-> clean]
    ELSE LET x == ReadFile(m, d, t, f, Head(paths), o, Head(ios))
         IN  ReadAll(x.r.mem, x.r.disk, x.r.now, f, Tail(paths), o, Tail(ios),
                     Append(blocks, x.block), clean /\ x.r.err.kind # "storage")

\* Read::execute with a plausible slip: the results are collected with ?, so
\* the first path that fails ends the reading and the call returns Err
ReadExecuteStopsAtError(m, d, t, f, ds, paths, o, ios) ==
    LET a == ReadAll(m, d, t, f, paths, o, ios, <<>>, TRUE)
        E == {i \in 1..Len(a.blocks) : a.blocks[i].kind = "error"}
        n == IF E = {} THEN Len(a.blocks)
             ELSE (CHOOSE i \in E : \A j \in E : i <= j) - 1
    IN  [mem |-> a.mem, disk |-> a.disk, now |-> a.now, files |-> f, dirs |-> ds,
         ok |-> (E = {}), blocks |-> SubSeq(a.blocks, 1, n), clean |-> a.clean]

\* Read::execute (read.rs): Ok of the blocks, collected in the order of the
\* paths
ReadExecute(m, d, t, f, ds, paths, o, ios) ==
    LET a == ReadAll(m, d, t, f, paths, o, ios, <<>>, TRUE)
    IN  [mem |-> a.mem, disk |-> a.disk, now |-> a.now, files |-> f, dirs |-> ds,
         ok |-> TRUE, blocks |-> a.blocks, clean |-> a.clean]

\* Search::execute (search.rs): the path, or "." when none is given, is
\* resolved for the default session; then the pattern compiles or not
SearchExecute(m, d, t, f, ds, path_str, io, regex_ok) ==
    LET r == ResolvePath(m, d, t, path_str, NoSid, io)
    IN  IF ~r.ok THEN Outcome(r, f, ds, FALSE, "resolve", r.path)
        ELSE IF ~regex_ok THEN Outcome(r, f, ds, FALSE, "invalid_regex", r.path)
        ELSE Outcome(r, f, ds, TRUE, "matches", r.path)

\* The words that hold a glob character ('*', '?' or '[')
GlobWords == {"*.rs"}

\* List::parse_path_and_pattern (list.rs): the path is cut at the last "/"
\* before the first glob character; the directory part is what stands before
\* that "/", the pattern what stands after it. Paths are Unix paths: the
\* fallback to the last '\' is not taken.
FirstGlob(p) ==
    LET G == {i \in 1..Len(p) : p[i] \in GlobWords}
    IN  IF G = {} THEN 0 ELSE CHOOSE i \in G : \A j \in G : i <= j
LastSepBefore(p, g) ==
    LET S == {i \in 1..(g - 1) : p[i] = "/"}
    IN  IF S = {} THEN 0 ELSE CHOOSE i \in S : \A j \in S : j <= i
ParsePathAndPattern(p) ==
    LET g == FirstGlob(p)
        split_pos == LastSepBefore(p, g)
    IN  IF g = 0 THEN [dir |-> p, glob |-> FALSE, pattern |-> <<>>]
        ELSE IF split_pos = 0 THEN [dir |-> <<>>, glob |-> TRUE, pattern |-> p]
        ELSE [dir |-> SubSeq(p, 1, split_pos - 1), glob |-> TRUE,
              pattern |-> SubSeq(p, split_pos + 1, Len(p))]

\* List::execute (list.rs): the path is parsed, its directory part resolved;
\* the pattern is one Pattern::new accepts
ListExecute(m, d, t, f, ds, path_str, o, io, isdir) ==
    LET r == ResolvePath(m, d, t, ParsePathAndPattern(path_str).dir, o, io)
    IN  IF ~r.ok THEN Outcome(r, f, ds, FALSE, "resolve", r.path)
        ELSE IF ~isdir THEN Outcome(r, f, ds, FALSE, "not_a_directory", r.path)
        ELSE Outcome(r, f, ds, TRUE, "entries", r.path)

\* What ret says of a file tool: the tool, Ok or Err, the kind of its text, the
\* path it worked on, the file that was there before, whether neither
\* overwrite nor append was set, whether both were, whether overwrite was, and
\* the directories the call made
Ran(op, x, was, plain, both, overwrite, made) ==
    [op |-> op, ok |-> x.ok, text |-> x.text, target |-> x.target, was |-> was,
     plain |-> plain, both |-> both, overwrite |-> overwrite, made |-> made]

\* The path and session id arguments the file tools get: relative, under the
\* home; no session id, or the default one
ToolPaths == {<<"c", "/", "d">>, <<"~", "/", "x">>}
ToolSids == {NoSid, SomeSid(DefaultId)}

\* The outcomes of the store's write that a call with this path argument can
\* meet: an absolute path is resolved without the store
IoFor(path) == IF IsAbsolute(TildeExpand(path)) THEN {"ok"} ELSE IoOutcomes

\* The path arguments list gets: as the other tools, and with a glob under the
\* root, under a directory, and with no directory at all
GlobPaths == {<<"/", "*.rs">>, <<"/", "a", "/", "b", "/", "*.rs">>, <<"*.rs">>}
ListPaths == ToolPaths \cup GlobPaths

ExecWrite ==
    \E path \in ToolPaths, c \in Contents, overwrite \in BOOLEAN, append \in BOOLEAN,
       create_directories \in BOOLEAN :
      \E io \in IoFor(path) :
        LET x == WriteExecute(mem, disk, now, files, dirs, path, c, overwrite,
                              append, create_directories, io)
        IN  /\ x.now <= MaxTime
            /\ \A p \in FilePaths : Len(x.files[p].data) <= MaxChunks
            /\ mem' = x.mem
            /\ disk' = x.disk
            /\ now' = x.now
            /\ files' = x.files
            /\ dirs' = x.dirs
            /\ ret' = Ran("write", x, FileAt(files, x.target), ~overwrite /\ ~append,
                          overwrite /\ append, overwrite, x.dirs \ dirs)
            /\ allOk' = (allOk /\ x.err.kind # "storage")
            /\ UNCHANGED <<updates, swd, inlog, out, eof, calls>>

\* create_directories is left at its default, true
ExecWriteFile ==
    \E path \in ToolPaths, o \in ToolSids, c \in Contents, overwrite \in BOOLEAN :
      \E io \in IoFor(path) :
        LET x == WriteFileExecute(mem, disk, now, files, dirs, path, o, c,
                                  overwrite, TRUE, io)
        IN  /\ x.now <= MaxTime
            /\ \A p \in FilePaths : Len(x.files[p].data) <= MaxChunks
            /\ mem' = x.mem
            /\ disk' = x.disk
            /\ now' = x.now
            /\ files' = x.files
            /\ dirs' = x.dirs
            /\ ret' = Ran("write_file", x, FileAt(files, x.target), ~overwrite, FALSE,
                          overwrite, x.dirs \ dirs)
            /\ allOk' = (allOk /\ x.err.kind # "storage")
            /\ UNCHANGED <<updates, swd, inlog, out, eof, calls>>

ExecMove ==
    \E source \in ToolPaths, destination \in ToolPaths, o \in ToolSids,
       overwrite \in BOOLEAN, create_directories \in BOOLEAN :
      \E io1 \in IoFor(source), io2 \in IoFor(destination) :
        LET x == MoveExecute(mem, disk, now, files, dirs, source, destination, o,
                             overwrite, create_directories, io1, io2)
        IN  /\ x.now <= MaxTime
            /\ \A p \in FilePaths : Len(x.files[p].data) <= MaxChunks
            /\ mem' = x.mem
            /\ disk' = x.disk
            /\ now' = x.now
            /\ files' = x.files
            /\ dirs' = x.dirs
            /\ ret' = Ran("move", x, FileAt(files, x.target), ~overwrite, FALSE,
                          overwrite, x.dirs \ dirs)
            /\ allOk' = (allOk /\ x.err.kind # "storage")
            /\ UNCHANGED <<updates, swd, inlog, out, eof, calls>>

\* The paths a read request carries, and for each of them what the store's
\* write does when its resolution reaches the store
ReadPaths == UNION {[1..n -> ToolPaths] : n \in 0..MaxPaths}
IosFor(paths) == {ios \in [1..Len(paths) -> IoOutcomes] :
                     \A i \in 1..Len(paths) : ios[i] \in IoFor(paths[i])}

ExecRead ==
    \E paths \in ReadPaths, o \in ToolSids :
      \E ios \in IosFor(paths) :
        LET x == ReadExecute(mem, disk, now, files, dirs, paths, o, ios)
        IN  /\ x.now <= MaxTime
            /\ mem' = x.mem
            /\ disk' = x.disk
            /\ now' = x.now
            /\ ret' = [op |-> "read", ok |-> x.ok, paths |-> paths, sid |-> o,
                       ios |-> ios, blocks |-> x.blocks]
            /\ allOk' = (allOk /\ x.clean)
            /\ UNCHANGED <<updates, swd, inlog, out, eof, calls, files, dirs>>

ExecSearch ==
    \E path \in ToolPaths \cup {<<".">>}, regex_ok \in BOOLEAN :
      \E io \in IoFor(path) :
        LET x == SearchExecute(mem, disk, now, files, dirs, path, io, regex_ok)
        IN  /\ x.now <= MaxTime
            /\ mem' = x.mem
            /\ disk' = x.disk
            /\ now' = x.now
            /\ ret' = Ran("search", x, FileAt(files, x.target), TRUE, FALSE, FALSE, {})
            /\ allOk' = (allOk /\ x.err.kind # "storage")
            /\ UNCHANGED <<updates, swd, inlog, out, eof, calls, files, dirs>>

ExecList ==
    \E path \in ListPaths, o \in ToolSids, isdir \in BOOLEAN :
      \E io \in IoFor(ParsePathAndPattern(path).dir) :
        LET x == ListExecute(mem, disk, now, files, dirs, path, o, io, isdir)
        IN  /\ x.now <= MaxTime
            /\ mem' = x.mem
            /\ disk' = x.disk
            /\ now' = x.now
            /\ ret' = Ran("list", x, FileAt(files, x.target), TRUE, FALSE, FALSE, {})
            /\ allOk' = (allOk /\ x.err.kind # "storage")
            /\ UNCHANGED <<updates, swd, inlog, out, eof, calls, files, dirs>>

\* FsTools::new on a storage directory that is empty, or that holds the working
\* directory an earlier run set for the default session
InitFiles ==
    \E cp \in {None, Some(<<"/", "a", "/", "b">>)} :
        /\ mem = [s \in Sids |->
                     IF s = DefaultId /\ cp.some THEN Entry(Data(cp), 0, 0)
                     ELSE NoEntry]
        /\ disk = [s \in Sids |->
                      IF s = DefaultId /\ cp.some
                      THEN Serialize(Entry(Data(cp), 0, 0))
                      ELSE NoFile]
        /\ now = 0
        /\ ret = NoRet
        /\ updates = [s \in Sids |->
                         IF s = DefaultId /\ cp.some THEN <<cp>> ELSE <<>>]
        /\ allOk = TRUE
        /\ swd = None
        /\ inlog = <<>>
        /\ out = <<>>
        /\ eof = FALSE
        /\ calls = [th \in Threads |-> Idle]
        /\ files = [p \in FilePaths |-> Absent]
    /\ dirs = HomeDirs

\* The tools that change the file system
NextFiles ==
    \/ ExecWrite
    \/ ExecWriteFile
    \/ ExecMove

SpecFiles == InitFiles /\ [][NextFiles]_vars

\* FsTools::new as in InitFiles, on a file system where each place holds a
\* file or none; the directory of a file that exists exists
InitLook ==
    \E cp \in {None, Some(<<"/", "a", "/", "b">>)} :
        /\ mem = [s \in Sids |->
                     IF s = DefaultId /\ cp.some THEN Entry(Data(cp), 0, 0)
                     ELSE NoEntry]
        /\ disk = [s \in Sids |->
                      IF s = DefaultId /\ cp.some
                      THEN Serialize(Entry(Data(cp), 0, 0))
                      ELSE NoFile]
        /\ now = 0
        /\ ret = NoRet
        /\ updates = [s \in Sids |->
                         IF s = DefaultId /\ cp.some THEN <<cp>> ELSE <<>>]
        /\ allOk = TRUE
        /\ swd = None
        /\ inlog = <<>>
        /\ out = <<>>
        /\ eof = FALSE
        /\ calls = [th \in Threads |-> Idle]
        /\ files \in [FilePaths -> {Absent, FileOf(<<"v1">>)}]
        /\ dirs = HomeDirs \cup UNION {CreateDirAll({}, Parent(p)) :
                                          p \in {q \in FilePaths : files[q].exists}}

\* The tools that look at the file system and leave it as it is
NextLook ==
    \/ ExecRead
    \/ ExecSearch
    \/ ExecList

SpecLook == InitLook /\ [][NextLook]_vars

----------------------------------------------------------------------------
(* Search::search_with_matcher (search.rs). A file is the sequence of its     *)
(* lines, a line being TRUE when the matcher finds the pattern in it; the     *)
(* directory searched is the sequence of its files in the order read_dir      *)
(* gives them. Every file is one should_search_file accepts.                  *)

\* Option<usize> max_results, and Search::max_results
NoLimit == [some |-> FALSE, n |-> 0]
Limit(n) == [some |-> TRUE, n |-> n]
MaxResults(o) == IF o.some THEN o.n ELSE 50

\* The note that can end the output
NoNote == [some |-> FALSE, more |-> 0, limit |-> 0]
Note(more, limit) == [some |-> TRUE, more |-> more, limit |-> limit]

\* search_file from line i on: the loop stops at the limit; a matching line is
\* pushed onto results and counted
RECURSIVE SearchFile(_, _, _, _, _, _)
SearchFile(lines, k, i, results, total_matches, max_results) ==
    IF i > Len(lines) \/ total_matches >= max_results
    THEN [results |-> results, total_matches |-> total_matches]
    ELSE IF lines[i]
    THEN SearchFile(lines, k, i + 1, Append(results, [file |-> k, line |-> i]),
                    total_matches + 1, max_results)
    ELSE SearchFile(lines, k, i + 1, results, total_matches, max_results)

\* search_path on a directory, from entry k on: each entry is searched (the
\* call returns at once when the limit is reached), and the loop breaks at
\* the limit
RECURSIVE SearchPath(_, _, _, _, _)
SearchPath(tree, k, results, total_matches, max_results) ==
    IF k > Len(tree) \/ total_matches >= max_results
    THEN [results |-> results, total_matches |-> total_matches]
    ELSE LET f == SearchFile(tree[k], k, 1, results, total_matches, max_results)
         IN  SearchPath(tree, k + 1, f.results, f.total_matches, max_results)

\* search_with_matcher: the matches returned and the note the output ends with
SearchWithMatcher(tree, o) ==
    LET max_results == MaxResults(o)
        s == SearchPath(tree, 1, <<>>, 0, max_results)
    IN  IF s.results = <<>>
        THEN [text |-> "no_matches", results |-> <<>>, note |-> NoNote]
        ELSE [text |-> "found", results |-> s.results,
              note |-> IF s.total_matches > max_results
                       THEN Note(s.total_matches - max_results, max_results)
                       ELSE NoNote]

\* The lines a file holds at most
MaxFileLines == 3

\* The files of the directory searched, and the limits requests carry
SearchFiles == UNION {[1..n -> BOOLEAN] : n \in 0..MaxFileLines}
SearchTrees == [1..2 -> SearchFiles]
SearchLimits == {NoLimit, Limit(0), Limit(1), Limit(2)}

\* A search request is at hand: the directory it will search and its limit
InitSearch ==
    /\ mem = [s \in Sids |-> NoEntry]
    /\ disk = [s \in Sids |-> NoFile]
    /\ now = 0
    /\ ret \in {[op |-> "search_request", tree |-> tree, max_results |-> o] :
                   tree \in SearchTrees, o \in SearchLimits}
    /\ updates = [s \in Sids |-> <<>>]
    /\ allOk = TRUE
    /\ swd = None
    /\ inlog = <<>>
    /\ out = <<>>
    /\ eof = FALSE
    /\ calls = [th \in Threads |-> Idle]
    /\ files = [p \in FilePaths |-> Absent]
    /\ dirs = HomeDirs

\* The request is run: ret holds what search_with_matcher returned
RunSearch ==
    /\ ret.op = "search_request"
    /\ ret' = [op |-> "searched", tree |-> ret.tree, max_results |-> ret.max_results,
               got |-> SearchWithMatcher(ret.tree, ret.max_results)]
    /\ UNCHANGED <<mem, disk, now, updates, allOk, loopVars, otherVars>>

NextSearch == RunSearch

SpecSearch == InitSearch /\ [][NextSearch]_vars

----------------------------------------------------------------------------
(* The tools of the main.rs build: FsTools of tools.rs, set_context.rs and     *)
(* list_directory.rs                                                          *)

\* FsTools::get_context (tools.rs)
ToolsGetContext(m, d, t, o, io) ==
    GetOrCreate(m, d, t, IF o.some THEN o.id ELSE DefaultId, io)

\* ListDirectory::resolve_path: no session id, no lookup
ListDirectoryResolvePath(m, d, t, path_str, o, io) ==
    LET g == ToolsGetContext(m, d, t, o, io)
    IN  IF IsAbsolute(path_str)
        THEN [mem |-> m, disk |-> d, now |-> t, ok |-> TRUE, path |-> path_str,
              err |-> NoErr]
        ELSE IF ~o.some
        THEN [mem |-> m, disk |-> d, now |-> t, ok |-> FALSE, path |-> <<>>,
              err |-> Err("context", {})]
        ELSE IF ~g.ok
        THEN [mem |-> g.mem, disk |-> g.disk, now |-> t + 1, ok |-> FALSE,
              path |-> <<>>, err |-> Err("storage", {})]
        ELSE IF g.val.context_path.some
        THEN [mem |-> g.mem, disk |-> g.disk, now |-> t + 1, ok |-> TRUE,
              path |-> Join(g.val.context_path.path, path_str), err |-> NoErr]
        ELSE [mem |-> g.mem, disk |-> g.disk, now |-> t + 1, ok |-> FALSE,
              path |-> <<>>, err |-> Err("context", {o.id})]

\* ListDirectory::execute on a path without glob characters: the path is
\* resolved, then it is a directory that can be listed or it is not
ListDirectoryExecute(m, d, t, path, o, io, isdir) ==
    LET r == ListDirectoryResolvePath(m, d, t, path, o, io)
    IN  [mem |-> r.mem, disk |-> r.disk, now |-> r.now,
         ok |-> (r.ok /\ isdir),
         err |-> IF ~r.ok THEN r.err
                 ELSE IF ~isdir THEN Err("not_a_directory", {})
                 ELSE NoErr]

\* SetContext::execute: get_or_create, then set with context_path = Some(path)
SetContextExecute(m, d, t, path, s, io1, io2) ==
    LET g == GetOrCreate(m, d, t, s, io1)
        u == Set(g.mem, g.disk, t + 1, s, Data(Some(path)), io2)
    IN  IF ~g.ok
        THEN [mem |-> g.mem, disk |-> g.disk, now |-> t + 1, ok |-> FALSE,
              err |-> Err("storage", {}), applied |-> FALSE]
        ELSE [mem |-> u.mem, disk |-> u.disk, now |-> t + 2, ok |-> u.ok,
              err |-> IF u.ok THEN NoErr ELSE Err("storage", {}),
              applied |-> TRUE]

----------------------------------------------------------------------------
(* The wire messages of main.rs *)

\* The ids requests carry; 0 stands for a line without an id
Ids == {1, 2}
NoId == 0

KnownOps == {"set_context", "list_directory"}

\* A line that is no JSON at all
Garbage == [json |-> FALSE, id |-> NoId, method |-> "", name |-> "", args |-> "bad"]

\* The JSON lines: {jsonrpc, id?, method, params}, params being well-formed for
\* the method (the tool) or not
JsonLines ==
    {[json |-> TRUE, id |-> i, method |-> m, name |-> "", args |-> "ok"] :
        i \in Ids \cup {NoId},
        m \in {"initialize", "tools/list", "notifications/initialized"}}
    \cup
    {[json |-> TRUE, id |-> i, method |-> "tools/call", name |-> n, args |-> a] :
        i \in Ids, n \in KnownOps \cup {"frobnicate"}, a \in {"ok", "bad"}}

Lines == {Garbage} \cup JsonLines

\* Decoding {name, arguments} into a Tool: a closed set of operations, each with
\* its own argument record
ToolDecode(name, args) ==
    IF name \notin KnownOps THEN "MethodNotFoundError"
    ELSE IF args # "ok" THEN "InvalidArgumentsError"
    ELSE "ok"

\* Deserialize for RequestType: tagged by "method", three variants
RequestTypeDecodes(line) ==
    \/ line.method = "initialize" /\ line.args = "ok"
    \/ line.method = "tools/list"
    \/ line.method = "tools/call" /\ ToolDecode(line.name, line.args) = "ok"

\* serde_json::from_str::<McpMessage>: untagged, Request is tried first, then
\* Notification, which asks for jsonrpc and method only
McpMessageDecode(line) ==
    IF ~line.json THEN "error"
    ELSE IF line.id # NoId /\ RequestTypeDecodes(line) THEN "request"
    ELSE "notification"

\* The code main.rs gives every failed tool call
ToolErrorCode == -32601

\* The code JSON-RPC 2.0 reserves for "Method not found"; main.rs holds no
\* other code
MethodNotFoundCode == -32601

\* McpResponse::success / McpResponse::error; line is the position of the input
\* line the response answers
Success(k, id) == [line |-> k, id |-> id, ok |-> TRUE, code |-> 0, err |-> NoErr]
Error(k, id, code, e) == [line |-> k, id |-> id, ok |-> FALSE, code |-> code, err |-> e]

----------------------------------------------------------------------------
(* main: the transport loop. One action reads a line and handles it to the    *)
(* end: decode, execute, write, flush.                                        *)

LoopPaths == {<<"/", "a", "/", "b">>, <<"c", "/", "d">>}
LoopSids == {DefaultId, S1}
LoopOptSids == {NoSid, SomeSid(S1)}

CanRead == ~eof /\ Len(inlog) < MaxLines

\* The step changes the session store: its map, its files, or the clock it reads
StoreStep == <<mem', disk', now'>> # <<mem, disk, now>>

\* What ret says of a handled line: the line, whether the store changed, how
\* many lines were written, and the Err its execution returned (if any)
Handled(line, touched, wrote, err) ==
    [op |-> "read", line |-> line, touched |-> touched, wrote |-> wrote,
     err |-> err]

\* A variant of ReadDropped with a plausible slip: a line that does not decode
\* ends the loop
ReadDroppedBreaks ==
    \E line \in Lines :
        /\ CanRead
        /\ McpMessageDecode(line) # "request"
        /\ inlog' = Append(inlog, line)
        /\ eof' = (McpMessageDecode(line) = "error")
        /\ UNCHANGED <<mem, disk, now, updates, allOk, swd, out, otherVars>>
        /\ ret' = Handled(line, StoreStep, Len(out') - Len(out), NoErr)

\* A line that does not decode as McpMessage::Request: nothing is written
ReadDropped ==
    \E line \in Lines :
        /\ CanRead
        /\ McpMessageDecode(line) # "request"
        /\ inlog' = Append(inlog, line)
        /\ UNCHANGED <<mem, disk, now, updates, allOk, swd, out, eof, otherVars>>
        /\ ret' = Handled(line, StoreStep, Len(out') - Len(out), NoErr)

\* A variant of ReadStatic with a plausible slip: the static answer is built
\* after a look at the context of the default session
ReadStaticLooksUp ==
    \E line \in Lines, io \in IoOutcomes :
        LET g == ToolsGetContext(mem, disk, now, NoSid, io)
        IN  /\ CanRead
            /\ McpMessageDecode(line) = "request"
            /\ line.method \in {"initialize", "tools/list"}
            /\ now < MaxTime
            /\ mem' = g.mem
            /\ disk' = g.disk
            /\ now' = now + 1
            /\ inlog' = Append(inlog, line)
            /\ out' = Append(out, Success(Len(inlog) + 1, line.id))
            /\ allOk' = (allOk /\ g.ok)
            /\ UNCHANGED <<updates, swd, eof, otherVars>>
            /\ ret' = Handled(line, StoreStep, Len(out') - Len(out), NoErr)

\* A variant of ReadStatic with a plausible slip: the answer is built but the
\* loop goes back to read_line without writing it
ReadStaticWritesNothing ==
    \E line \in Lines :
        /\ CanRead
        /\ McpMessageDecode(line) = "request"
        /\ line.method \in {"initialize", "tools/list"}
        /\ inlog' = Append(inlog, line)
        /\ UNCHANGED <<mem, disk, now, updates, allOk, swd, out, eof, otherVars>>
        /\ ret' = Handled(line, StoreStep, Len(out') - Len(out), NoErr)

\* RequestType::Initialize and RequestType::ToolsList: a static success
ReadStatic ==
    \E line \in Lines :
        /\ CanRead
        /\ McpMessageDecode(line) = "request"
        /\ line.method \in {"initialize", "tools/list"}
        /\ inlog' = Append(inlog, line)
        /\ out' = Append(out, Success(Len(inlog) + 1, line.id))
        /\ UNCHANGED <<mem, disk, now, updates, allOk, swd, eof, otherVars>>
        /\ ret' = Handled(line, StoreStep, Len(out') - Len(out), NoErr)

\* RequestType::ToolsCall(Tool::SetContext)
ReadSetContext ==
    \E line \in Lines, path \in LoopPaths, s \in LoopSids,
       io1 \in IoOutcomes, io2 \in IoOutcomes :
        LET r == SetContextExecute(mem, disk, now, path, s, io1, io2)
            k == Len(inlog) + 1
        IN  /\ CanRead
            /\ McpMessageDecode(line) = "request"
            /\ line.name = "set_context"
            /\ r.now <= MaxTime
            /\ mem' = r.mem
            /\ disk' = r.disk
            /\ now' = r.now
            /\ inlog' = Append(inlog, line)
            /\ out' = Append(out, IF r.ok THEN Success(k, line.id)
                                  ELSE Error(k, line.id, ToolErrorCode, r.err))
            /\ ret' = Handled(line, StoreStep, Len(out') - Len(out), r.err)
            /\ updates' = IF r.applied
                          THEN [updates EXCEPT ![s] = Append(@, Some(path))]
                          ELSE updates
            /\ allOk' = (allOk /\ r.ok)
            /\ UNCHANGED <<swd, eof, otherVars>>

\* A variant of ReadListDirectory with a plausible slip: the Err of the tool is
\* propagated with ? out of main instead of being turned into a response
ReadListDirectoryFatal ==
    \E line \in Lines, path \in LoopPaths, o \in LoopOptSids,
       io \in IoOutcomes, isdir \in BOOLEAN :
        LET r == ListDirectoryExecute(mem, disk, now, path, o, io, isdir)
            k == Len(inlog) + 1
        IN  /\ CanRead
            /\ McpMessageDecode(line) = "request"
            /\ line.name = "list_directory"
            /\ r.now <= MaxTime
            /\ mem' = r.mem
            /\ disk' = r.disk
            /\ now' = r.now
            /\ inlog' = Append(inlog, line)
            /\ out' = IF r.ok THEN Append(out, Success(k, line.id)) ELSE out
            /\ eof' = ~r.ok
            /\ ret' = Handled(line, StoreStep, Len(out') - Len(out), r.err)
            /\ allOk' = (allOk /\ r.err.kind # "storage")
            /\ UNCHANGED <<updates, swd, otherVars>>

\* RequestType::ToolsCall(Tool::ListDirectory)
ReadListDirectory ==
    \E line \in Lines, path \in LoopPaths, o \in LoopOptSids,
       io \in IoOutcomes, isdir \in BOOLEAN :
        LET r == ListDirectoryExecute(mem, disk, now, path, o, io, isdir)
            k == Len(inlog) + 1
        IN  /\ CanRead
            /\ McpMessageDecode(line) = "request"
            /\ line.name = "list_directory"
            /\ r.now <= MaxTime
            /\ mem' = r.mem
            /\ disk' = r.disk
            /\ now' = r.now
            /\ inlog' = Append(inlog, line)
            /\ out' = Append(out, IF r.ok THEN Success(k, line.id)
                                  ELSE Error(k, line.id, ToolErrorCode, r.err))
            /\ ret' = Handled(line, StoreStep, Len(out') - Len(out), r.err)
            /\ allOk' = (allOk /\ r.err.kind # "storage")
            /\ UNCHANGED <<updates, swd, eof, otherVars>>

\* read_line returns Ok(0) or Err: the loop ends
ReadEof ==
    /\ ~eof
    /\ eof' = TRUE
    /\ ret' = [op |-> "eof"]
    /\ UNCHANGED <<mem, disk, now, updates, allOk, swd, inlog, out, otherVars>>

Init == InitStore

Next ==
    \/ ReadDropped
    \/ ReadStatic
    \/ ReadSetContext
    \/ ReadListDirectory
    \/ ReadEof

Spec == Init /\ [][Next]_vars

\* The loop is one sequential task: with an input stream that ends and tool
\* operations that return, read_line and every branch of the match return, so
\* an iteration that can be taken is taken
SpecLive == Init /\ [][Next]_vars /\ WF_vars(Next)

----------------------------------------------------------------------------
(* Claims on the store *)

\* C1: the first get_or_create of a session id the store does not hold returns
\* the payload's zero value (context_path = None) whenever it returns a value,
\* and the entry it creates has created_at = last_used.
C1_FirstGetOrCreate ==
    (ret.op = "get_or_create" /\ ret.absent) =>
        /\ ret.ok => ret.val = Zero
        /\ mem[ret.sid].present
        /\ mem[ret.sid].data = Zero
        /\ mem[ret.sid].created_at = mem[ret.sid].last_used

\* A first get_or_create has returned Ok, at a time later than the epoch.
C1_Witness ==
    /\ ret.op = "get_or_create"
    /\ ret.absent
    /\ ret.ok
    /\ mem[ret.sid].last_used > 0

\* C2: a get_or_create on a session id returns the fold, in call order, of the
\* mutators applied to that id over the zero value; get_or_create calls in
\* between leave the payload as it is.
C2_FoldOfUpdates ==
    /\ (ret.op = "get_or_create" /\ ret.ok) =>
            ret.val = Fold(updates[ret.sid], Zero)
    /\ \A s \in Sids : mem[s].present => mem[s].data = Fold(updates[s], Zero)

\* A get_or_create has returned the payload of the second of two different
\* updates of its session id.
C2_Witness ==
    /\ ret.op = "get_or_create"
    /\ ret.ok
    /\ Len(updates[ret.sid]) = 2
    /\ updates[ret.sid][1] # updates[ret.sid][2]
    /\ updates[ret.sid][1].some
    /\ ret.val = Data(updates[ret.sid][2])

\* C3: after successful calls only, a fresh store on the same storage directory
\* holds exactly the session ids the dropped store held, and get_or_create on
\* each returns the payload the dropped store held.
C3_RoundTrip ==
    (ret.op = "new" /\ ret.clean) =>
        \A s \in Sids :
            /\ ret.held[s].present <=> mem[s].present
            /\ ret.held[s].present =>
                   GetOrCreate(mem, disk, now, s, "ok").val = ret.held[s].data

\* C11: every entry of the store has created_at <= last_used, and a
\* get_or_create or set on a session id leaves that entry's last_used at the
\* clock reading of the call (the clock never runs backwards).
C11_LastUsedRefreshed ==
    /\ \A s \in Sids : mem[s].present => mem[s].created_at <= mem[s].last_used
    /\ (ret.op \in {"get_or_create", "set"}) =>
            /\ mem[ret.sid].present
            /\ mem[ret.sid].last_used = ret.at

\* A set on an entry created earlier has moved last_used past created_at.
C11_Witness ==
    /\ ret.op = "set"
    /\ mem[ret.sid].created_at < mem[ret.sid].last_used
    /\ mem[ret.sid].last_used = ret.at

\* The files of the storage directory hold exactly the map: for each session id
\* the file at session_file_path(id) is the serialization of the entry, and
\* there is no file for an id the map does not hold.
PersistedEqualsMemory ==
    \A s \in Sids :
        IF mem[s].present THEN disk[s] = Serialize(mem[s]) ELSE disk[s] = NoFile

\* C12: after every get_or_create or set that returns Ok, the persisted state
\* equals the in-memory mapping: the same session ids, each with the same
\* payload, created_at and last_used.
C12_PersistedEqualsMemory ==
    (ret.op \in {"get_or_create", "set"} /\ ret.ok) => PersistedEqualsMemory

\* C14: a store constructed while the persisted state is present but corrupt
\* is empty: it holds no session of the prior state.
C14_CorruptLoadsEmpty ==
    (ret.op = "new" /\ \E s \in Sids : disk[s] = Corrupt) =>
        \A s \in Sids : ~mem[s].present

\* Every call made on the store has returned
AllReturned == \A th \in Threads : calls[th] = Idle

\* The map holds, for each session id, the fold of its updates in lock order
NoLostUpdate ==
    \A s \in Sids : mem[s].present => mem[s].data = Fold(updates[s], Zero)

\* C13: with threads calling set / get_or_create concurrently and every call
\* returning Ok, the updates of a session id are applied in the order the
\* calls took the lock, and once all calls have returned the file of each
\* session id holds the entry the map holds.
C13_ConcurrentCallsPersistLast ==
    /\ NoLostUpdate
    /\ (AllReturned /\ allOk) =>
            \A s \in Sids : mem[s].present => disk[s] = Serialize(mem[s])

\* C29: a remove that returns Ok leaves its session absent from the map and
\* from the disk, so that a get_or_create after it returns the zero value and
\* a store constructed from the disk does not hold the session; and when
\* removes run concurrently with sets and get_or_creates, once every call has
\* returned Ok the map holds a session exactly when the disk holds its file.
C29_RemovedEverywhere ==
    /\ AllReturned =>
           \A s \in ThreadSids, io \in IoOutcomes :
               LET r == Remove(mem, disk, s, io)
               IN  r.ok =>
                       /\ ~r.mem[s].present
                       /\ r.disk[s] = NoFile
                       /\ GetOrCreate(r.mem, r.disk, now, s, "ok").val = Zero
                       /\ ~LoadFromDisk(r.disk)[s].present
    /\ (AllReturned /\ allOk) =>
           \A s \in ThreadSids : mem[s].present <=> disk[s].state = "json"

\* The calls on the store that are get_or_create and set, or made of them
StoreCalls == {"get_or_create", "set", "set_context"}

\* C28: an entry keeps its created_at as long as it is in the map: a step that
\* is a get_or_create or a set leaves every entry the map held in the map with
\* the created_at it had; only the payload and last_used of the entry of the
\* call's session id can differ.
C28_CreatedAtNeverChanges ==
    [][ret'.op \in StoreCalls =>
           \A s \in Sids :
               mem[s].present =>
                   /\ mem'[s].present
                   /\ mem'[s].created_at = mem[s].created_at
                   /\ s # ret'.sid => mem'[s] = mem[s]]_vars

\* A set has returned on a session whose entry was made at an earlier clock
\* reading, with another payload than the zero value it was made with.
C28_Witness ==
    /\ ret.op = "set"
    /\ ret.ok
    /\ mem[ret.sid].present
    /\ mem[ret.sid].created_at < ret.at
    /\ mem[ret.sid].last_used = ret.at
    /\ mem[ret.sid].data # Zero

----------------------------------------------------------------------------
(* Claims on the context resolver *)

PathOps == {"set_working_directory", "delete"}

C5_ContextErrorNamesSession ==
    (/\ ret.op \in PathOps
     /\ ~IsAbsolute(TildeExpand(ret.path))
     /\ ~ret.ctx.some
     /\ ret.io = "ok") =>
        /\ ~ret.rok
        /\ ret.err.kind = "context"
        /\ ret.err.names = {SidOrDefault(ret.sid)}

----------------------------------------------------------------------------
(* Claims on the transport loop *)

\* The responses written for input line k
ResponsesTo(k) == {j \in 1..Len(out) : out[j].line = k}

\* C7: a tools/call line with an id whose operation name is not a known
\* operation gets one response line: an error of the "not found" kind with the
\* id of the request.
C7_UnknownOperationNotFound ==
    \A k \in 1..Len(inlog) :
        (/\ inlog[k].json
         /\ inlog[k].id # NoId
         /\ inlog[k].method = "tools/call"
         /\ inlog[k].name \notin KnownOps) =>
            /\ Cardinality(ResponsesTo(k)) = 1
            /\ \A j \in ResponsesTo(k) :
                   /\ out[j].id = inlog[k].id
                   /\ ~out[j].ok
                   /\ out[j].err.kind = "not_found"

\* C8: a tools/call line with an id that names a known operation with a missing
\* or ill-shaped argument gets one response line: an "invalid arguments" error
\* with the id of the request.
C8_BadArgumentsInvalid ==
    \A k \in 1..Len(inlog) :
        (/\ inlog[k].json
         /\ inlog[k].id # NoId
         /\ inlog[k].method = "tools/call"
         /\ inlog[k].name \in KnownOps
         /\ inlog[k].args # "ok") =>
            /\ Cardinality(ResponsesTo(k)) = 1
            /\ \A j \in ResponsesTo(k) :
                   /\ out[j].id = inlog[k].id
                   /\ ~out[j].ok
                   /\ out[j].err.kind = "invalid_arguments"

C10_OneResponsePerRequest ==
    /\ \A k \in 1..Len(inlog) :
           (McpMessageDecode(inlog[k]) # "error" /\ inlog[k].id # NoId) =>
               /\ Cardinality(ResponsesTo(k)) = 1
               /\ \A j \in ResponsesTo(k) : out[j].id = inlog[k].id
    /\ \A k \in 1..Len(inlog) :
           ~(McpMessageDecode(inlog[k]) # "error" /\ inlog[k].id # NoId) =>
               ResponsesTo(k) = {}
    /\ \A i, j \in 1..Len(out) : i < j => out[i].line < out[j].line

\* The lines read so far that main decodes as McpMessage::Request
RequestsRead == {k \in 1..Len(inlog) : McpMessageDecode(inlog[k]) = "request"}

FailureKinds == {"context", "not_a_directory", "storage"}

C16_ToolFailureCodeDistinct ==
    \A j \in 1..Len(out) :
        (~out[j].ok /\ out[j].err.kind \in FailureKinds) =>
            /\ out[j].code = ToolErrorCode
            /\ out[j].code # MethodNotFoundCode

\* C20: handling an initialize or a tools/list request leaves the session store
\* as it was (the map with every last_used, the files, and the clock it would
\* have read), and writes the one static success response whatever the store
\* holds.
C20_StaticRequestsBypassStore ==
    (/\ ret.op = "read"
     /\ McpMessageDecode(ret.line) = "request"
     /\ ret.line.method \in {"initialize", "tools/list"}) =>
        /\ ~ret.touched
        /\ ret.wrote = 1
        /\ out[Len(out)] = Success(Len(inlog), ret.line.id)

\* A tools/list request was answered while the store held a session with a
\* context.
C20_Witness ==
    /\ ret.op = "read"
    /\ McpMessageDecode(ret.line) = "request"
    /\ ret.line.method = "tools/list"
    /\ \E s \in Sids : mem[s].present /\ mem[s].data.context_path.some
    /\ Len(out) = 2
    /\ out[2].ok

----------------------------------------------------------------------------
(* Claims on the context of the sessions *)

\* Map m2 is map m with nothing done to it but zero-valued entries created and
\* last_used refreshed
OnlyTouched(m, m2) ==
    \A s \in Sids :
        IF m[s].present
        THEN m2[s] = [m[s] EXCEPT !.last_used = m2[s].last_used]
        ELSE m2[s].present => m2[s].data = Zero

\* The context_path of each session, None for a session the map does not hold
Contexts(m) ==
    [s \in Sids |-> IF m[s].present THEN m[s].data.context_path ELSE None]

\* The sessions whose context_path is not the same in m2 as in m
Changed(m, m2) == {s \in Sids : Contexts(m2)[s] # Contexts(m)[s]}

\* C18: from every state the store reaches, a call of list, read, write,
\* write_file, delete, move or search leaves the context_path of every session
\* as it is (it creates zero-valued entries and refreshes last_used, nothing
\* more), and a call of set_working_directory or set_context changes the
\* context_path of the default, respectively the named, session and of no
\* other.
C18_ContextFrame ==
    /\ \A path \in ToolPaths, o \in OptSids, io \in IoOutcomes :
        /\ OnlyTouched(mem, DeleteExecute(mem, disk, now, files, path, o, io, "ok").mem)
        /\ OnlyTouched(mem, ReadExecute(mem, disk, now, files, dirs, <<path>>, o,
                                        <<io>>).mem)
        /\ OnlyTouched(mem, ListExecute(mem, disk, now, files, dirs, path, o, io,
                                        TRUE).mem)
        /\ OnlyTouched(mem, SearchExecute(mem, disk, now, files, dirs, path, io,
                                          TRUE).mem)
        /\ \A overwrite \in BOOLEAN :
            /\ OnlyTouched(mem, WriteExecute(mem, disk, now, files, dirs, path,
                                             "v1", overwrite, FALSE, TRUE, io).mem)
            /\ OnlyTouched(mem, WriteFileExecute(mem, disk, now, files, dirs, path,
                                                 o, "v1", overwrite, TRUE, io).mem)
            /\ \A destination \in ToolPaths, io2 \in IoOutcomes :
                   OnlyTouched(mem, MoveExecute(mem, disk, now, files, dirs, path,
                                                destination, o, overwrite, TRUE,
                                                io, io2).mem)
    /\ \A path \in InPaths, io1 \in IoOutcomes, io2 \in IoOutcomes :
           Changed(mem, SetWorkingDirectoryExecute(mem, disk, now, path, io1,
                                                   io2).mem) \subseteq {DefaultId}
    /\ \A path \in Paths, s \in Sids, io1 \in IoOutcomes, io2 \in IoOutcomes :
           Changed(mem, SetContextExecute(mem, disk, now, path, s, io1,
                                          io2).mem) \subseteq {s}
    /\ \A s \in Sids : Contexts(mem)[s] = Fold(updates[s], Zero).context_path

\* set_working_directory has set the context of the default session while the
\* store holds another session, whose context is still unset, and a delete for
\* a relative path has run after it.
C18_Witness ==
    /\ ret.op = "delete"
    /\ ret.rok
    /\ ~IsAbsolute(ret.path)
    /\ swd.some
    /\ mem[DefaultId].present
    /\ mem[DefaultId].data.context_path.some
    /\ mem[S1].present
    /\ mem[S1].data = Zero

\* C19: for every path-bearing operation, from every state, a call without a
\* session id gives what the same call with session id "default" gives: the
\* same path or error and the same store afterwards.
C19_OmittedSessionIsDefault ==
    /\ \A path \in InPaths, io \in IoOutcomes :
           ResolvePath(mem, disk, now, path, NoSid, io)
               = ResolvePath(mem, disk, now, path, SomeSid(DefaultId), io)
    /\ \A path \in LoopPaths, io \in IoOutcomes, isdir \in BOOLEAN :
           ListDirectoryExecute(mem, disk, now, path, NoSid, io, isdir)
               = ListDirectoryExecute(mem, disk, now, path, SomeSid(DefaultId),
                                      io, isdir)

\* C21: set_working_directory resolves its argument before it stores anything.
\* From every state the store reaches: a call whose argument does not resolve
\* returns an error and leaves the context_path of every session as it was; a
\* call that returns Ok has stored the resolved path, which is absolute, as the
\* context of the default session, and for a relative argument that path is
\* the previous context with the argument joined onto it.
C21_ResolveThenStore ==
    /\ \A path \in InPaths, io1 \in IoOutcomes, io2 \in IoOutcomes :
        LET x == SetWorkingDirectoryExecute(mem, disk, now, path, io1, io2)
        IN  /\ ~x.r.ok => (~x.ok /\ Contexts(x.mem) = Contexts(mem))
            /\ x.ok =>
                /\ x.r.ok
                /\ Contexts(x.mem)[DefaultId] = Some(x.r.path)
                /\ IsAbsolute(x.r.path)
                /\ ~IsAbsolute(TildeExpand(path)) =>
                       /\ ContextOf(mem, NoSid).some
                       /\ x.r.path = Join(ContextOf(mem, NoSid).path, path)
    /\ (ret.op = "set_working_directory" /\ ret.ok) =>
           Contexts(mem)[DefaultId] = Some(ret.resolved)

\* set_working_directory has stored a relative argument joined onto the context
\* an earlier call had set.
C21_Witness ==
    /\ ret.op = "set_working_directory"
    /\ ret.ok
    /\ ~IsAbsolute(TildeExpand(ret.path))
    /\ ret.ctx.some
    /\ mem[DefaultId].data.context_path = Some(Join(ret.ctx.path, ret.path))
    /\ Len(updates[DefaultId]) = 2

----------------------------------------------------------------------------
(* Claims on the file tools *)

WriteOps == {"write", "write_file", "move"}

\* C17: a write or a move whose target holds a file and that sets neither
\* overwrite nor append returns Ok with a text that tells of the conflict, not
\* an Err (which the transport would turn into an error response), and leaves
\* the file as it was.
C17_ExistingTargetIsSuccessText ==
    (ret.op \in WriteOps /\ ret.text # "resolve" /\ ret.was.exists /\ ret.plain) =>
        /\ ret.ok
        /\ ret.text = "already_exists"
        /\ FileAt(files, ret.target) = ret.was

\* C22: a write that sets both overwrite and append performs no operation on
\* the file system: it returns Ok, the file at its path is as it was, and no
\* directory has been made, whatever create_directories is.
C22_BothFlagsNoFilesystemOperation ==
    (ret.op = "write" /\ ret.both /\ ret.text # "resolve") =>
        /\ ret.ok
        /\ ret.text = "mutually_exclusive"
        /\ FileAt(files, ret.target) = ret.was
        /\ ret.made = {}

\* Sequence a is a prefix of sequence b
IsPrefix(a, b) == Len(a) <= Len(b) /\ SubSeq(b, 1, Len(a)) = a

\* C23: a write changes the content of a file that exists only when the
\* request sets overwrite or append. With both unset the file is made only if
\* there was none; with overwrite set the write fails when there is no file;
\* with append set the file is made if there was none, and else what it held
\* is a prefix of what it holds.
C23_WriteKeepsExistingContent ==
    (ret.op \in {"write", "write_file"} /\ ret.text # "resolve" /\ ~ret.both) =>
        LET after == FileAt(files, ret.target)
            appends == ~ret.plain /\ ~ret.overwrite
        IN  /\ (ret.plain /\ ret.was.exists) => after = ret.was
            /\ (ret.plain /\ ~ret.was.exists /\ ret.ok) =>
                   (after.exists /\ Len(after.data) = 1)
            /\ (ret.overwrite /\ ~ret.was.exists) => (~ret.ok /\ after = ret.was)
            /\ (appends /\ ret.ok) =>
                   /\ after.exists
                   /\ IsPrefix(ret.was.data, after.data)
                   /\ Len(after.data) = Len(ret.was.data) + 1

\* C26: a move whose destination holds a file while overwrite is not set, or
\* whose source holds none, returns an error and leaves the file system as
\* it was: every file keeps its content and no directory is made. This is so
\* for every such call from every state, and for the call that has just run.
C26_FailedMoveChangesNothing ==
    /\ \A source \in ToolPaths, destination \in ToolPaths, o \in ToolSids,
          overwrite \in BOOLEAN, create_directories \in BOOLEAN :
        LET rs == ResolvePath(mem, disk, now, source, o, "ok")
            rd == ResolvePath(rs.mem, rs.disk, rs.now, destination, o, "ok")
            x == MoveExecute(mem, disk, now, files, dirs, source, destination, o,
                             overwrite, create_directories, "ok", "ok")
        IN  (/\ rs.ok
             /\ rd.ok
             /\ \/ FileAt(files, rd.path).exists /\ ~overwrite
                \/ ~FileAt(files, rs.path).exists) =>
                /\ ~x.ok
                /\ x.text \in {"already_exists", "not_found"}
                /\ x.files = files
                /\ x.dirs = dirs
    /\ (ret.op = "move" /\ ret.text \in {"already_exists", "not_found"}) =>
        /\ ~ret.ok
        /\ ret.made = {}
        /\ FileAt(files, ret.target) = ret.was

\* A move onto a file that exists was refused while every place holds a file
\* and the files differ: the move would have replaced one content by another.
C26_Witness ==
    /\ ret.op = "move"
    /\ ret.text = "already_exists"
    /\ ~ret.ok
    /\ ret.was.exists
    /\ \A p \in FilePaths : files[p].exists
    /\ \E p, q \in FilePaths : files[p].data # files[q].data

\* C27: a read over N paths returns Ok with N blocks, the i-th block being
\* that of the i-th path: the content of its file, or an ERROR block when the
\* path does not resolve (no context for a relative path, or the store's
\* write failed) or holds no file. An ERROR block does not end the reading.
C27_ReadGivesOneBlockPerPath ==
    (ret.op = "read") =>
        /\ ret.ok
        /\ Len(ret.blocks) = Len(ret.paths)
        /\ \A i \in 1..Len(ret.paths) :
            LET path == TildeExpand(ret.paths[i])
                resolves == IsAbsolute(path)
                              \/ (ContextOf(mem, ret.sid).some /\ ret.ios[i] = "ok")
                file == IF IsAbsolute(path) THEN path
                        ELSE Join(ContextOf(mem, ret.sid).path, ret.paths[i])
            IN  /\ ret.blocks[i].path = ret.paths[i]
                /\ ret.blocks[i].kind =
                       IF resolves /\ FileAt(files, file).exists THEN "contents"
                       ELSE "error"

\* A read of two paths gave an ERROR block for the first and the content of
\* the file for the second.
C27_Witness ==
    /\ ret.op = "read"
    /\ Len(ret.paths) = 2
    /\ ret.blocks[1].kind = "error"
    /\ ret.blocks[2].kind = "contents"

\* C25: a list path that holds a glob character is cut at the last separator
\* before the first glob character into a directory and a pattern; when the
\* path is absolute, the directory is absolute, it is resolved without the
\* store, and for a glob under the root it is the root.
C25_AbsoluteGlobBaseIsAbsolute ==
    \A path \in GlobPaths, o \in ToolSids, io \in IoOutcomes :
        LET pp == ParsePathAndPattern(path)
            x == ListExecute(mem, disk, now, files, dirs, path, o, io, TRUE)
        IN  IsAbsolute(path) =>
                /\ pp.glob
                /\ pp.pattern = SubSeq(path, FirstGlob(path), Len(path))
                /\ IsAbsolute(pp.dir)
                /\ <<x.mem, x.disk, x.now>> = <<mem, disk, now>>
                /\ x.ok
                /\ IsAbsolute(x.target)
                /\ path = <<"/", "*.rs">> => x.target = <<"/">>

----------------------------------------------------------------------------
(* Claims on search *)

\* The number of lines of the directory that match
RECURSIVE MatchingLines(_, _)
MatchingLines(tree, k) ==
    IF k > Len(tree) THEN 0
    ELSE Cardinality({i \in 1..Len(tree[k]) : tree[k][i]}) + MatchingLines(tree, k + 1)

\* C24: when more lines match than max_results, search returns exactly
\* max_results matches and its output ends with the note "... and N more
\* matches (limit max_results)", N being the number of matching lines beyond
\* the limit.
C24_TruncatedSearchHasNote ==
    (ret.op = "searched"
        /\ MatchingLines(ret.tree, 1) > MaxResults(ret.max_results)) =>
        /\ Len(ret.got.results) = MaxResults(ret.max_results)
        /\ ret.got.note = Note(MatchingLines(ret.tree, 1) - MaxResults(ret.max_results),
                               MaxResults(ret.max_results))

====
